---- MODULE Spec2Model ----
(***************************************************************************)
(* Basic Station protocol engine (shaunybear/basicstation).                *)
(*                                                                         *)
(* One station session over one websocket connection: Gateway.Run with its *)
(* receive goroutine, Gateway.WriteText, the caller's cancellation signal, *)
(* the device (peer) and the transport.  The message codec is modelled on  *)
(* JSON documents held as records from keys to tagged values.              *)
(***************************************************************************)
EXTENDS Integers, Sequences, FiniteSets, TLC

\* ------------------------------------------------------------------ bounds
\* Number of data frames the device may send on one connection.
MaxFrames == 3
\* Number of WriteText calls the server application may make.
MaxWrites == 1

\* ------------------------------------------------------------ JSON values
Str(s) == [t |-> "s", s |-> s]
Num(n) == [t |-> "n", n |-> n]
Bool(b) == [t |-> "b", b |-> b]
Arr(a) == [t |-> "a", a |-> a]
Obj(o) == [t |-> "o", o |-> o]

\* A websocket data frame: message type, whether the payload parses as a
\* JSON object, and the object.
TextFrame(o) == [mt |-> "text", wf |-> TRUE, obj |-> o]
BinaryFrame(o) == [mt |-> "binary", wf |-> TRUE, obj |-> o]
GarbageFrame == [mt |-> "text", wf |-> FALSE, obj |-> <<>>]
\* Control items of the inbound stream: the peer's close frame and a
\* transport failure; NextReader reports both as an error.
CloseFrame == [mt |-> "close"]
ReadError == [mt |-> "error"]

IsData(f) == f.mt \in {"text", "binary"}

\* ---------------------------------------------------------------- records
ZeroVersion ==
  [Station |-> "", Firmware |-> "", Package |-> "", Model |-> "",
   Protocol |-> 0, Features |-> "", MsgType |-> ""]

ZeroRouterConf ==
  [MessageType |-> "", DRs |-> <<>>, NetID |-> <<>>, JoinEUI |-> <<>>,
   Region |-> "", HWSPEC |-> "", FreqRange |-> <<>>, SX1301s |-> <<>>,
   NOCCA |-> FALSE, NODC |-> FALSE, NODWELL |-> FALSE]

ZeroStats ==
  [DecodeErrors |-> 0, RecvTextMsg |-> 0, RecvBinaryMsg |-> 0,
   WriteNoConnError |-> 0, WriteTextOk |-> 0, WriteTextError |-> 0]

ZeroGateway ==
  [Version |-> ZeroVersion, RouterConf |-> ZeroRouterConf, Stats |-> ZeroStats]

\* The value of a nil interface / nil error.
Nil == [type |-> "nil"]

\* ------------------------------------------------------------------ codec
Err(text) == [type |-> "error", text |-> text]

Has(obj, k) == k \in DOMAIN obj

\* encoding/json into a struct: a key that is present must hold a value of
\* the field's kind; keys the struct does not name are ignored.
JsonFieldOk(obj, k, kind) ==
  Has(obj, k) =>
    CASE kind = "string" -> obj[k].t = "s"
      [] kind = "uint" -> obj[k].t = "n" /\ obj[k].n >= 0
      [] OTHER -> FALSE

JsonString(obj, k, old) == IF Has(obj, k) THEN obj[k].s ELSE old
JsonUint(obj, k, old) == IF Has(obj, k) THEN obj[k].n ELSE old

\* json.NewDecoder(inbound).Decode(&gw.Version): the frame's message type
\* and its msgtype value are not looked at.
jsonDecodeVersion(f, old) ==
  IF ~f.wf THEN [err |-> Err("json: syntax error"), v |-> old]
  ELSE IF ~(/\ JsonFieldOk(f.obj, "station", "string")
            /\ JsonFieldOk(f.obj, "firmware", "string")
            /\ JsonFieldOk(f.obj, "package", "string")
            /\ JsonFieldOk(f.obj, "model", "string")
            /\ JsonFieldOk(f.obj, "protocol", "uint")
            /\ JsonFieldOk(f.obj, "features", "string")
            /\ JsonFieldOk(f.obj, "msgtype", "string"))
  THEN [err |-> Err("json: cannot unmarshal"), v |-> old]
  ELSE [err |-> Nil,
        v |-> [Station |-> JsonString(f.obj, "station", old.Station),
               Firmware |-> JsonString(f.obj, "firmware", old.Firmware),
               Package |-> JsonString(f.obj, "package", old.Package),
               Model |-> JsonString(f.obj, "model", old.Model),
               Protocol |-> JsonUint(f.obj, "protocol", old.Protocol),
               Features |-> JsonString(f.obj, "features", old.Features),
               MsgType |-> JsonString(f.obj, "msgtype", old.MsgType)]]

\* The two revisions of the message definitions: part_000 decodes JSON
\* numbers as float64, part_001 as json.Number (dec.UseNumber()).
Revisions == {"part_000", "part_001"}

\* What mapstructure makes of a negative float64 bound for an unsigned
\* field: releases with the overflow test report an error; releases without
\* it convert, which wraps or saturates with the platform.
UintConv == {"error", "wrap", "saturate"}

\* A field of a message struct: its Go name (the name mapstructure matches),
\* its JSON name (the json tag, or the Go name), its kind, and for a struct
\* field the struct's type and whether mapstructure squashes it.
Fld(go, json, kind) == [go |-> go, json |-> json, kind |-> kind]
Sub(go, json, of, squash) ==
  [go |-> go, json |-> json, kind |-> "struct", of |-> of, squash |-> squash]

Schema(rev, ty) ==
  CASE ty = "RxContext" ->
         <<Fld("RCTX", "rctx", "int64"), Fld("XTime", "xtime", "int64"),
           Fld("GPSTime", "gpstime", IF rev = "part_000" THEN "int64" ELSE "float64")>>
    [] ty = "Version" ->
         <<Fld("Station", "station", "string"), Fld("Firmware", "firmware", "string"),
           Fld("Package", "package", "string"), Fld("Model", "model", "string"),
           Fld("Protocol", "protocol", "uint"), Fld("Features", "features", "string"),
           Fld("MsgType", "msgtype", "string")>>
    [] ty = "UpInfo" ->
         <<Fld("RSSI", "rssi", "float64"), Fld("SNR", "snr", "float64"),
           Sub("RCtx", "RCtx", "RxContext", TRUE)>>
    [] ty = "JoinRequest" ->
         <<Fld("MsgType", "msgtype", "string"), Fld("MHdr", "MHdr", "uint8"),
           Fld("JoinEUI", "JoinEui", "string"), Fld("DevEUI", "DevEui", "string"),
           Fld("DevNonce", "DevNonce", "uint16"), Fld("MIC", "MIC", "int32"),
           Fld("DR", "DR", "int"), Fld("Freq", "Freq", "int"),
           Sub("UpInfo", "UpInfo", "UpInfo", FALSE)>>
    [] ty = "Uplink" ->
         <<Fld("MHdr", "MHdr", "uint8"),
           Fld("DevAddr", "DevAddr", IF rev = "part_000" THEN "uint32" ELSE "int32"),
           Fld("FCtrl", "FCtrl", "uint8"), Fld("FCnt", "FCnt", "uint16"),
           Fld("FOpts", "FOpts", "string"), Fld("FPort", "FPort", "int8"),
           Fld("FRMPayload", "FRMPayload", "string"), Fld("MIC", "MIC", "int32"),
           Fld("DR", "DR", "int"), Fld("Freq", "Freq", "int"),
           Sub("UpInfo", "UpInfo", "UpInfo", FALSE),
           Fld("MsgType", "msgtype", "string")>>
    [] ty = "DnTxed" ->
         <<Fld("DIID", "diid", "int64"),
           Fld("DevEUI", "DevEui", IF rev = "part_000" THEN "uint64" ELSE "string"),
           Fld("TXTime", "txtime", "float64"),
           Sub("RCtx", "RCtx", "RxContext", TRUE)>>

GoNames(rev, ty) == {Schema(rev, ty)[i].go : i \in DOMAIN Schema(rev, ty)}
FieldOf(rev, ty, name) ==
  Schema(rev, ty)[CHOOSE i \in DOMAIN Schema(rev, ty) : Schema(rev, ty)[i].go = name]

Signed == {"int8", "int32", "int", "int64"}
Unsigned == {"uint8", "uint16", "uint32", "uint", "uint64"}

\* The zero value of a message struct.
RECURSIVE Zero(_, _)
Zero(rev, ty) ==
  [type |-> ty,
   f |-> [n \in GoNames(rev, ty) |->
            LET fld == FieldOf(rev, ty, n) IN
            CASE fld.kind = "string" -> ""
              [] fld.kind = "struct" -> Zero(rev, fld.of)
              [] OTHER -> 0]]

\* strings.EqualFold on the keys and field names of the messages.
Fold(k) ==
  CASE k \in {"msgtype", "MsgType"} -> "msgtype"
    [] k \in {"rctx", "RCTX", "RCtx"} -> "rctx"
    [] k \in {"xtime", "XTime"} -> "xtime"
    [] k \in {"gpstime", "GPSTime"} -> "gpstime"
    [] k \in {"rssi", "RSSI"} -> "rssi"
    [] k \in {"snr", "SNR"} -> "snr"
    [] k \in {"upinfo", "UpInfo"} -> "upinfo"
    [] k \in {"station", "Station"} -> "station"
    [] k \in {"firmware", "Firmware"} -> "firmware"
    [] k \in {"package", "Package"} -> "package"
    [] k \in {"model", "Model"} -> "model"
    [] k \in {"protocol", "Protocol"} -> "protocol"
    [] k \in {"features", "Features"} -> "features"
    [] k \in {"JoinEui", "JoinEUI"} -> "joineui"
    [] k \in {"DevEui", "DevEUI"} -> "deveui"
    [] k \in {"diid", "DIID"} -> "diid"
    [] k \in {"txtime", "TXTime"} -> "txtime"
    [] k \in {"router", "Router"} -> "router"
    [] OTHER -> k

\* The map key mapstructure reads for a field: the exact name, else a key
\* that differs in case only.
MapKeys(obj, name) ==
  IF Has(obj, name) THEN {name} ELSE {k \in DOMAIN obj : Fold(k) = Fold(name)}

\* A signed or unsigned integer of w bits holding n.
IntWrap(n, w, signed) ==
  LET m == 2 ^ w
      r == n % m
  IN IF signed /\ r >= m \div 2 THEN r - m ELSE r

Bits(kind) ==
  CASE kind \in {"int8", "uint8"} -> 8
    [] kind = "uint16" -> 16
    [] kind \in {"int32", "uint32"} -> 32
    [] OTHER -> 64

\* The unsigned value 2^w + n of a negative n, for the widths whose values
\* lie beyond the integers of the model.
UWrap(n, w) == [wraps |-> n, bits |-> w]

Fail == [ok |-> FALSE, v |-> 0]
Got(v) == [ok |-> TRUE, v |-> v]

\* mapstructure's decodeString, decodeInt, decodeUint and decodeFloat on a
\* JSON value (no weakly typed input).  A json.Number is of string kind, so
\* a string field takes it as its text.
decodeScalar(rev, conv, kind, val) ==
  CASE kind = "string" ->
         IF val.t = "s" THEN Got(val.s)
         ELSE IF val.t = "n" /\ rev = "part_001" THEN Got(ToString(val.n))
         ELSE Fail
    [] kind \in Signed ->
         IF val.t # "n" THEN Fail
         ELSE IF Bits(kind) <= 16 THEN Got(IntWrap(val.n, Bits(kind), TRUE))
         ELSE Got(val.n)
    [] kind \in Unsigned ->
         IF val.t # "n" THEN Fail
         ELSE IF val.n >= 0
              THEN IF Bits(kind) <= 16 THEN Got(IntWrap(val.n, Bits(kind), FALSE))
                   ELSE Got(val.n)
         ELSE IF rev = "part_001" \/ conv = "error" THEN Fail
         ELSE IF conv = "saturate" THEN Got(0)
         ELSE IF Bits(kind) <= 16 THEN Got(IntWrap(val.n, Bits(kind), FALSE))
         ELSE Got(UWrap(val.n, Bits(kind)))
    [] kind = "float64" -> IF val.t = "n" THEN Got(val.n) ELSE Fail

\* mapstructure's decodeStructFromMap: every field from the key of its Go
\* name; a squashed struct field from the keys of the same map; a missing
\* key leaves the zero value.
RECURSIVE decodeStruct(_, _, _, _)
decodeField(rev, conv, fld, obj) ==
  LET ks == MapKeys(obj, fld.go) IN
  IF fld.kind = "struct"
  THEN IF fld.squash THEN decodeStruct(rev, conv, fld.of, obj)
       ELSE IF ks = {} THEN Got(Zero(rev, fld.of))
       ELSE LET val == obj[CHOOSE k \in ks : TRUE] IN
            IF val.t = "o" THEN decodeStruct(rev, conv, fld.of, val.o) ELSE Fail
  ELSE IF ks = {} THEN Got(IF fld.kind = "string" THEN "" ELSE 0)
       ELSE decodeScalar(rev, conv, fld.kind, obj[CHOOSE k \in ks : TRUE])

decodeStruct(rev, conv, ty, obj) ==
  LET res == [n \in GoNames(rev, ty) |->
                decodeField(rev, conv, FieldOf(rev, ty, n), obj)]
  IN IF \A n \in GoNames(rev, ty) : res[n].ok
     THEN Got([type |-> ty, f |-> [n \in GoNames(rev, ty) |-> res[n].v]])
     ELSE Fail

\* mapstructure.Decode(&input, &output): output holds the zero struct the
\* msgtype selected; when it holds nothing (a nil interface) the input map
\* itself becomes the result.
mapstructureDecode(rev, conv, obj, output) ==
  IF output = "nil" THEN [err |-> Nil, msg |-> [type |-> "map", obj |-> obj]]
  ELSE LET d == decodeStruct(rev, conv, output, obj) IN
       IF d.ok THEN [err |-> Nil, msg |-> d.v]
       ELSE [err |-> Err("mapstructure: error(s) decoding"), msg |-> Nil]

\* UnsupportedMsgType and its Error().
UnsupportedMsgType(mtype) == [type |-> "UnsupportedMsgType", mtype |-> mtype]
Error(u) == "unsupported message type: " \o u.mtype

\* A decode that takes a frame without a string msgtype for one to ignore.
Discriminator_Lenient(obj) ==
  IF Has(obj, "msgtype") /\ obj.msgtype.t = "s" THEN [err |-> Nil, mt |-> obj.msgtype.s]
  ELSE [err |-> Nil, mt |-> "propdf"]

\* The discriminator of a decoded map: input["msgtype"] as a string.
Discriminator(obj) ==
  IF ~Has(obj, "msgtype") THEN [err |-> Err("no msgtype"), mt |-> ""]
  ELSE IF obj.msgtype.t # "s" THEN [err |-> Err("msgtype is not a string"), mt |-> ""]
  ELSE [err |-> Nil, mt |-> obj.msgtype.s]

\* A switch on msgtype whose default leaves output unset.
Output_IgnoreUnknown(mt) ==
  CASE mt = "jreq" -> "JoinRequest"
    [] mt = "updf" -> "Uplink"
    [] mt = "dntxed" -> "DnTxed"
    [] mt = "version" -> "Version"
    [] OTHER -> "nil"

\* The zero struct the switch on msgtype selects: "nil" when output is left
\* unset, "unsupported" when the switch returns the UnsupportedMsgType error.
Output(mt) ==
  CASE mt = "jreq" -> "JoinRequest"
    [] mt = "updf" -> "Uplink"
    [] mt = "dntxed" -> "DnTxed"
    [] mt = "version" -> "Version"
    [] mt = "propdf" -> "nil"
    [] OTHER -> "unsupported"

\* decode of revision rev: the generic map first, then the struct msgtype
\* selects.
decodeRev(rev, conv, f) ==
  IF ~f.wf THEN [err |-> Err("json: syntax error"), msg |-> Nil]
  ELSE LET d == Discriminator(f.obj) IN
       IF d.err # Nil THEN [err |-> d.err, msg |-> Nil]
       ELSE IF Output(d.mt) = "unsupported"
       THEN [err |-> UnsupportedMsgType(d.mt), msg |-> Nil]
       ELSE mapstructureDecode(rev, conv, f.obj, Output(d.mt))

\* json.Marshal of a message struct: the JSON names of its fields, a struct
\* field as a nested object.
RECURSIVE EncodeStruct(_, _)
EncodeStruct(rev, m) ==
  LET sch == Schema(rev, m.type) IN
  [k \in {sch[i].json : i \in DOMAIN sch} |->
     LET fld == sch[CHOOSE i \in DOMAIN sch : sch[i].json = k] IN
     CASE fld.kind = "string" -> Str(m.f[fld.go])
       [] fld.kind = "struct" -> Obj(EncodeStruct(rev, m.f[fld.go]))
       [] OTHER -> Num(m.f[fld.go])]

\* Encode(msg): the marshalled message as the payload of a text frame.
Encode(rev, m) == TextFrame(EncodeStruct(rev, m))

\* json.NewEncoder(outbound).Encode(&gw.RouterConf): the wire names of the
\* struct tags; omitempty fields are dropped when empty.
OmitEmptySeq(k, s) == IF s = <<>> THEN <<>> ELSE <<<<k, Arr(s)>>>>

EncodeRouterConfPairs(c) ==
  <<<<"msgtype", Str(c.MessageType)>>>>
  \o OmitEmptySeq("DRs", c.DRs)
  \o OmitEmptySeq("NetID", c.NetID)
  \o OmitEmptySeq("JoinEui", c.JoinEUI)
  \o <<<<"region", Str(c.Region)>>, <<"hwspec", Str(c.HWSPEC)>>>>
  \o OmitEmptySeq("freq_range", c.FreqRange)
  \o OmitEmptySeq("SX1301_conf", c.SX1301s)
  \o <<<<"nocca", Bool(c.NOCCA)>>, <<"nodc", Bool(c.NODC)>>, <<"nodwell", Bool(c.NODWELL)>>>>

PairsToObj(ps) ==
  [k \in {ps[i][1] : i \in DOMAIN ps} |->
     ps[CHOOSE i \in DOMAIN ps : ps[i][1] = k][2]]

EncodeRouterConf(c) == TextFrame(PairsToObj(EncodeRouterConfPairs(c)))

\* -------------------------------------------------- station identifiers
\* A uint64 identifier is held as its four 16-bit words, most significant
\* first (binary.BigEndian); a text as the sequence of its characters.
LowerHex == <<"0", "1", "2", "3", "4", "5", "6", "7", "8", "9", "a", "b", "c", "d", "e", "f">>
UpperHex == <<"0", "1", "2", "3", "4", "5", "6", "7", "8", "9", "A", "B", "C", "D", "E", "F">>

IsHex(c) == \E i \in 1..16 : LowerHex[i] = c \/ UpperHex[i] = c
HexVal(c) == (CHOOSE i \in 1..16 : LowerHex[i] = c \/ UpperHex[i] = c) - 1

ZeroEUI == <<0, 0, 0, 0>>

\* fmt.Sprintf("%04x", w) of one word.
WordHex(w) ==
  <<LowerHex[(w \div 4096) + 1], LowerHex[((w \div 256) % 16) + 1],
    LowerHex[((w \div 16) % 16) + 1], LowerHex[(w % 16) + 1]>>

\* toString with the words in little-endian order.
toString_Swapped(eui) == WordHex(eui[4]) \o WordHex(eui[3]) \o WordHex(eui[2]) \o WordHex(eui[1])

\* toString: fmt.Sprintf("%016x", eui).
toString(eui) == WordHex(eui[1]) \o WordHex(eui[2]) \o WordHex(eui[3]) \o WordHex(eui[4])

\* strings.Replace(s, sep, "", -1) for a separator of one character; the
\* empty separator removes nothing.
Replace(s, sep) == SelectSeq(s, LAMBDA c : c # sep)

\* The value of hex digits as a word, and of 16 hex digits as an identifier.
RECURSIVE HexNum(_)
HexNum(s) == IF s = <<>> THEN 0 ELSE HexNum(SubSeq(s, 1, Len(s) - 1)) * 16 + HexVal(s[Len(s)])

\* strconv.ParseUint(ss, 16, 64): the digits beyond the last 16 must be zero.
ParseUint(ss) ==
  LET n == Len(ss)
      lead == SubSeq(ss, 1, n - 16)
      pad == [i \in 1..(16 - n) |-> "0"]
      d == IF n >= 16 THEN SubSeq(ss, n - 15, n) ELSE pad \o ss
  IN IF ss = <<>> \/ \E i \in DOMAIN ss : ~IsHex(ss[i])
     THEN [err |-> Err("strconv.ParseUint: invalid syntax"), v |-> ZeroEUI]
     ELSE IF \E i \in DOMAIN lead : HexVal(lead[i]) # 0
     THEN [err |-> Err("strconv.ParseUint: value out of range"), v |-> ZeroEUI]
     ELSE [err |-> Nil,
           v |-> <<HexNum(SubSeq(d, 1, 4)), HexNum(SubSeq(d, 5, 8)),
                   HexNum(SubSeq(d, 9, 12)), HexNum(SubSeq(d, 13, 16))>>]

\* The text up to the first colon, and what follows that colon.
RECURSIVE Groups(_)
Groups(s) ==
  LET cut == {i \in DOMAIN s : s[i] = ":"} IN
  IF cut = {} THEN <<s>>
  ELSE LET i == CHOOSE j \in cut : \A k \in cut : j <= k IN
       <<SubSeq(s, 1, i - 1)>> \o Groups(SubSeq(s, i + 1, Len(s)))

\* The releases of the Go library differ on a group of more than four
\* digits: the older parser reads any number of digits whose value stays
\* small, the newer one rejects the group.
GoParsers == {"xtoi", "netip"}

GroupOk(go, g) ==
  /\ g # <<>>
  /\ \A i \in DOMAIN g : IsHex(g[i])
  /\ IF go = "netip" THEN Len(g) <= 4
     ELSE \A i \in DOMAIN g : i <= Len(g) - 4 => HexVal(g[i]) = 0

GroupVal(g) == HexNum(SubSeq(g, IF Len(g) > 4 THEN Len(g) - 3 ELSE 1, Len(g)))

\* net.ParseIP("::" + s), reduced to ip[8:]: the text is hex groups between
\* colons, at most seven of them after the leading ellipsis; the last four
\* groups of the address are its low 64 bits.  No text of the model holds
\* a dot.
ParseIPLow(go, s) ==
  IF s = <<>> THEN [ok |-> TRUE, v |-> ZeroEUI]
  ELSE LET gs == Groups(s)
           n == Len(gs)
           vals == [i \in 1..n |-> GroupVal(gs[i])]
           all == [i \in 1..(8 - n) |-> 0] \o vals
       IN IF n <= 7 /\ \A i \in 1..n : GroupOk(go, gs[i])
          THEN [ok |-> TRUE, v |-> SubSeq(all, 5, 8)]
          ELSE [ok |-> FALSE, v |-> ZeroEUI]

\* The loop of fromString over the separators "", "-" and ":"; after the last
\* one the error of the last ParseUint is returned.
RECURSIVE fromStringSeps(_, _, _)
fromStringSeps(s, seps, err) ==
  IF seps = <<>> THEN [err |-> err, v |-> ZeroEUI]
  ELSE LET ss == Replace(s, seps[1])
           p == ParseUint(ss)
       IN IF Len(ss) < 16 THEN [err |-> Err("Invalid EUI format"), v |-> ZeroEUI]
          ELSE IF p.err # Nil THEN fromStringSeps(s, Tail(seps), p.err)
          ELSE p

\* fromString: the IPv6 form first, unless it gives zero, then the loop.
fromString(go, s) ==
  LET ip == ParseIPLow(go, s) IN
  IF ip.ok /\ ip.v # ZeroEUI THEN [err |-> Nil, v |-> ip.v]
  ELSE fromStringSeps(s, <<"", "-", ":">>, Nil)

\* parseEUI: a JSON number is a float64 and converts, a string goes to
\* fromString, any other value is unsupported.  The numbers of the model are
\* whole and not negative.
parseEUI(go, val) ==
  CASE val.t = "n" /\ val.n >= 0 -> [err |-> Nil, v |-> <<0, 0, val.n \div 65536, val.n % 65536>>]
    [] val.t = "s" -> fromString(go, val.s)
    [] OTHER -> [err |-> Err("ParseEUI: unsupported"), v |-> ZeroEUI]

\* ------------------------------------------------------------ environment
\* Objects the device sends in a session.
VersionObj == [msgtype |-> Str("version"), station |-> Str("st1"), protocol |-> Num(2)]
UplinkObj == [msgtype |-> Str("updf"), DevAddr |-> Num(100)]

SessionFrames ==
  {TextFrame(VersionObj), TextFrame(UplinkObj), BinaryFrame(UplinkObj), GarbageFrame}

\* decode as the station session is built with it (part_000); its results on
\* the frames of the session are computed once.
SessionDecoded == [f \in SessionFrames |-> decodeRev("part_000", "error", f)]
decode(f) ==
  IF f \in SessionFrames THEN SessionDecoded[f] ELSE decodeRev("part_000", "error", f)

\* Configurations the server application may supply in GetRouterConf.
ConfUS == [ZeroRouterConf EXCEPT !.MessageType = "router_config", !.Region = "US902"]
ConfEU == [ZeroRouterConf EXCEPT !.MessageType = "router_config", !.Region = "EU863",
                                 !.FreqRange = <<863, 870>>, !.NOCCA = TRUE]
Confs == {ConfUS, ConfEU}

\* Payloads the server application hands to WriteText: the reader's data and
\* whether the reader fails before its end.
DownlinkObj == [msgtype |-> Str("dnmsg"), pdu |-> Str("00")]
Readers == {[data |-> DownlinkObj, fails |-> FALSE], [data |-> DownlinkObj, fails |-> TRUE]}

\* ------------------------------------------------------------------ state
VARIABLES
  impl,        \* the session runner on this connection: "Gateway" (Gateway.Run)
               \*   or "connHandler" (connHandler.run)
  pc,          \* the runner: "start", "readVersion", "getConf", "writeConf",
               \*   "startLoop", "waitCtx" (Gateway), "loop" (connHandler), "returned"
  runErr,      \* the error the runner returned
  rpc,         \* the read loop: "none", "next", "dispatch", "exited"
  cur,         \* the frame the read loop holds
  gw,          \* the Gateway: Version, RouterConf, Stats
  conn,        \* the websocket connection: bound, closed, readDeadline, writer, writeErr
  netUp,       \* the transport carries frames
  peerDone,    \* the device has closed its side
  inbound,     \* frames sent by the device, not yet returned by NextReader
  sentCount,   \* number of data frames the device has sent
  wire,        \* frames the server flushed to the transport, in order
  cancelled,   \* the caller's context is done
  handlerLog,  \* messages passed to Receive, in order
  consumed,    \* data frames NextReader returned to the read loop
  confCalls,   \* invocations of GetRouterConf
  supplied,    \* the configuration GetRouterConf supplied
  timedOut,    \* the version read ended by its deadline
  first,       \* the frame readVersion read and the error it returned
  wtCalls,     \* WriteText calls made
  wtLast,      \* the last WriteText call: the Stats before it, its result and
               \*   the Stats of the receiver's copy
  codec,       \* a call of the codec: its revision, its input and its result
  ident,       \* a station identifier being formatted and parsed
  disc,        \* a discovery request being served
  bind         \* a session request being bound to a connection

runVars == <<pc, runErr>>
loopVars == <<rpc, cur, consumed, handlerLog>>
peerVars == <<netUp, peerDone, sentCount>>
confVars == <<confCalls, supplied>>
verVars == <<timedOut, first>>
wtVars == <<wtCalls, wtLast>>

\* The variables of a station session, and those outside it.
sessionVars ==
  <<impl, pc, runErr, rpc, cur, gw, conn, netUp, peerDone, inbound, sentCount, wire,
    cancelled, handlerLog, consumed, confCalls, supplied, timedOut, first, wtCalls,
    wtLast>>
offSession == <<codec, ident, disc, bind>>

vars == <<sessionVars, offSession>>

NoWriter == [open |-> FALSE]
NewConn(bound) ==
  [bound |-> bound, closed |-> FALSE, readDeadline |-> FALSE,
   writer |-> NoWriter, writeErr |-> FALSE]

NoFrame == [mt |-> "none"]
NoCall == [called |-> FALSE]

\* No codec call is under way.
NoCodec == [op |-> "none"]
NoIdent == [op |-> "none"]
NoDisc == [pc |-> "none"]
NoBind == [pc |-> "none"]
OffIdle == codec = NoCodec /\ ident = NoIdent /\ disc = NoDisc /\ bind = NoBind

\* The session before its runner is called.
SessionStart ==
  /\ pc = "start"
  /\ runErr = Nil
  /\ rpc = "none"
  /\ cur = NoFrame
  /\ gw = ZeroGateway
  /\ netUp = TRUE
  /\ peerDone = FALSE
  /\ inbound = <<>>
  /\ sentCount = 0
  /\ wire = <<>>
  /\ cancelled = FALSE
  /\ handlerLog = <<>>
  /\ consumed = <<>>
  /\ confCalls = 0
  /\ supplied = Nil
  /\ timedOut = FALSE
  /\ first = NoFrame
  /\ wtCalls = 0
  /\ wtLast = NoCall

\* A Gateway with or without a connection, or a connHandler on an upgraded
\* connection; the runner has not been called yet.
Init ==
  /\ impl \in {"Gateway", "connHandler"}
  /\ conn \in IF impl = "Gateway" THEN {NewConn(TRUE), NewConn(FALSE)} ELSE {NewConn(TRUE)}
  /\ SessionStart
  /\ OffIdle

\* No station session is under way.
NoSession ==
  /\ impl = "none"
  /\ conn = NewConn(FALSE)
  /\ SessionStart

\* ---------------------------------------------------- websocket connection
\* A write reaches the device while the transport is up and the server has
\* not closed the connection.
CanSend(c) == netUp /\ ~c.closed

\* The connection's current message writer is closed: its frame is flushed
\* as the final frame of the message.  After a write error nothing more is
\* written.
FlushWriter(c, w) ==
  IF ~c.writer.open THEN [conn |-> c, wire |-> w]
  ELSE IF c.writeErr THEN [conn |-> [c EXCEPT !.writer = NoWriter], wire |-> w]
  ELSE [conn |-> [c EXCEPT !.writer = NoWriter, !.writeErr = ~CanSend(c)],
        wire |-> Append(w, [frame |-> c.writer.frame, delivered |-> CanSend(c)])]

\* conn.NextWriter(websocket.TextMessage): a writer the application left
\* open is closed first; the call fails once the connection has a write
\* error.
NextWriter(c, w) ==
  LET f == FlushWriter(c, w) IN
  IF f.conn.writeErr
  THEN [err |-> Err("websocket: write error"), conn |-> f.conn, wire |-> f.wire]
  ELSE [err |-> Nil,
        conn |-> [f.conn EXCEPT !.writer = [open |-> TRUE, frame |-> GarbageFrame]],
        wire |-> f.wire]

\* Bytes written to the open writer stay in its buffer: frame is what a
\* flush would put on the wire.
WriteTo(c, frame) == [c EXCEPT !.writer = [open |-> TRUE, frame |-> frame]]

\* A Close that leaves the underlying connection open.
Close_Open(c) == c

\* conn.Close(): the underlying connection is closed, nothing is flushed.
Close(c) == [c EXCEPT !.closed = TRUE]

\* The reply gorilla's close handler writes when NextReader meets the peer's
\* close frame: later writes fail.
AfterControl(c, f) ==
  [c EXCEPT !.writeErr = IF f.mt = "close" THEN TRUE ELSE @]

\* --------------------------------------------- handshake of both runners
\* The runner returns err; the deferred Close of the connection runs.
RunReturn(c, err) ==
  /\ pc' = "returned"
  /\ runErr' = err
  /\ conn' = Close(c)

\* A runner that goes on to the configuration whatever readVersion returned.
AfterReadVersion_IgnoreErr(err) == "getConf"

\* Where the runner goes after readVersion returned err.
AfterReadVersion(err) == IF err # Nil THEN "returned" ELSE "getConf"

\* The read deadline readVersion sets before its read.
VersionDeadline == TRUE

\* A readVersion that leaves its deadline on the connection.
ClearDeadline_Keep(c) == c

\* defer SetReadDeadline(time.Time{}): run when readVersion returns.
ClearDeadline(c) == [c EXCEPT !.readDeadline = FALSE]

\* readVersion up to its blocking read: SetReadDeadline(now + 5s).
readVersionStart ==
  /\ pc = "start"
  /\ conn.bound
  /\ pc' = "readVersion"
  /\ conn' = [conn EXCEPT !.readDeadline = VersionDeadline]
  /\ UNCHANGED <<offSession, impl, runErr, loopVars, gw, peerVars, inbound, wire, cancelled,
                 confVars, verVars, wtVars>>

\* readVersion from the first frame on: decode it into the Version, clear
\* the deadline.
readVersionFrame ==
  /\ pc = "readVersion"
  /\ inbound # <<>>
  /\ LET f == inbound[1]
         d == IF IsData(f) THEN jsonDecodeVersion(f, gw.Version)
              ELSE [err |-> Err("websocket: read error"), v |-> gw.Version]
         c == ClearDeadline(AfterControl(conn, f))
     IN /\ inbound' = Tail(inbound)
        /\ first' = [frame |-> f, err |-> d.err]
        /\ gw' = [gw EXCEPT !.Version = d.v]
        /\ pc' = AfterReadVersion(d.err)
        /\ IF pc' = "returned"
           THEN runErr' = d.err /\ conn' = Close(c)
           ELSE runErr' = runErr /\ conn' = c
  /\ UNCHANGED <<offSession, impl, loopVars, peerVars, wire, cancelled, confVars, timedOut, wtVars>>

\* readVersion when the read deadline passes with no frame received.
readVersionTimeout ==
  /\ pc = "readVersion"
  /\ conn.readDeadline
  /\ inbound = <<>>
  /\ timedOut' = TRUE
  /\ pc' = AfterReadVersion(Err("i/o timeout"))
  /\ IF pc' = "returned"
     THEN runErr' = Err("i/o timeout")
          /\ conn' = Close(ClearDeadline(conn))
     ELSE runErr' = runErr /\ conn' = ClearDeadline(conn)
  /\ UNCHANGED <<offSession, impl, loopVars, gw, peerVars, inbound, wire, cancelled, confVars,
                 first, wtVars>>

\* A runner that asks for the configuration while the version read is pending.
AsksConf_BeforeVersion(p) == p \in {"readVersion", "getConf"}

\* Whether the runner asks the collaborator for a configuration at pc.
AsksConf(p) == p = "getConf"

\* GetRouterConf: the collaborator supplies a configuration (stored in
\* gw.RouterConf) or reports an error.
GetRouterConf ==
  /\ AsksConf(pc)
  /\ confCalls' = confCalls + 1
  /\ \E c \in Confs, fails \in BOOLEAN :
       IF fails
       THEN /\ RunReturn(conn, Err("no configuration"))
            /\ UNCHANGED <<gw, supplied>>
       ELSE /\ gw' = [gw EXCEPT !.RouterConf = c]
            /\ supplied' = c
            /\ pc' = "writeConf"
            /\ UNCHANGED <<runErr, conn>>
  /\ UNCHANGED <<offSession, impl, loopVars, peerVars, inbound, wire, cancelled, verVars, wtVars>>

\* The frame the runner encodes into the writer.
ConfFrame(g) == EncodeRouterConf(g.RouterConf)

\* A runner that writes the configuration again after writing it.
AfterWriteConf_Again == "writeConf"

\* Where the runner goes after the configuration write.
AfterWriteConf == "startLoop"

\* NextWriter, Encode, outbound.Close().  Encode fails only when the payload
\* overflows the write buffer on a dead transport; the error of Close is
\* dropped.
WriteConf ==
  /\ pc = "writeConf"
  /\ LET nw == NextWriter(conn, wire) IN
     IF nw.err # Nil
     THEN /\ RunReturn(nw.conn, nw.err)
          /\ wire' = nw.wire
     ELSE \E encFails \in (IF CanSend(nw.conn) THEN {FALSE} ELSE {FALSE, TRUE}) :
            IF encFails
            THEN /\ RunReturn([nw.conn EXCEPT !.writeErr = TRUE], Err("write failed"))
                 /\ wire' = nw.wire
            ELSE LET fl == FlushWriter(WriteTo(nw.conn, ConfFrame(gw)), nw.wire) IN
                 /\ conn' = fl.conn
                 /\ wire' = fl.wire
                 /\ pc' = AfterWriteConf
                 /\ runErr' = runErr
  /\ UNCHANGED <<offSession, impl, loopVars, gw, peerVars, inbound, cancelled, confVars, verVars,
                 wtVars>>

\* ------------------------------------------------------------- Gateway.Run
\* go func() { for { ... } }(): the read goroutine starts, Run waits for
\* ctx.Done().
StartReadLoop ==
  /\ impl = "Gateway"
  /\ pc = "startLoop"
  /\ rpc' = "next"
  /\ pc' = "waitCtx"
  /\ UNCHANGED <<offSession, impl, runErr, cur, consumed, handlerLog, gw, conn, peerVars, inbound,
                 wire, cancelled, confVars, verVars, wtVars>>

\* A Run that returns only once the read goroutine has ended as well.
RunMayReturn_WaitsReader == cancelled /\ rpc = "exited"

\* What Run waits for once the read loop is started.
RunMayReturn == cancelled

\* <-ctx.Done(); return err
WaitCtx ==
  /\ pc = "waitCtx"
  /\ RunMayReturn
  /\ RunReturn(conn, Nil)
  /\ UNCHANGED <<offSession, impl, loopVars, gw, peerVars, inbound, wire, cancelled, confVars,
                 verVars, wtVars>>

\* gw.conn.NextReader() in the read goroutine.  A data frame is handed to
\* the loop body; a close frame or a transport failure is an error and the
\* goroutine returns.  Once the connection is closed the read fails, unless
\* the frame was already buffered.  A read deadline left on the connection
\* ends the read of a silent device.
ReaderNext ==
  /\ impl = "Gateway"
  /\ rpc = "next"
  /\ \/ /\ inbound # <<>>
        /\ LET f == inbound[1] IN
           /\ inbound' = Tail(inbound)
           /\ conn' = AfterControl(conn, f)
           /\ IF IsData(f)
              THEN rpc' = "dispatch" /\ cur' = f /\ consumed' = Append(consumed, f)
              ELSE rpc' = "exited" /\ cur' = cur /\ consumed' = consumed
     \/ /\ conn.closed \/ (conn.readDeadline /\ inbound = <<>>)
        /\ rpc' = "exited"
        /\ UNCHANGED <<inbound, conn, cur, consumed>>
  /\ UNCHANGED <<offSession, impl, runVars, handlerLog, gw, peerVars, wire, cancelled, confVars,
                 verVars, wtVars>>

\* A loop body that counts a binary frame as a decode error as well.
LoopStats_BinaryDecoded(st, f) ==
  CASE f.mt = "text" ->
         IF decode(f).err # Nil THEN [st EXCEPT !.DecodeErrors = @ + 1] ELSE st
    [] f.mt = "binary" -> [st EXCEPT !.RecvBinaryMsg = @ + 1, !.DecodeErrors = @ + 1]
    [] OTHER -> st

\* The Stats after the loop body handled frame f.
LoopStats(st, f) ==
  CASE f.mt = "text" ->
         IF decode(f).err # Nil
         THEN [st EXCEPT !.DecodeErrors = @ + 1]
         ELSE st
    [] f.mt = "binary" -> [st EXCEPT !.RecvBinaryMsg = @ + 1]
    [] OTHER -> st

\* A loop body that passes the newest message ahead of the earlier ones.
LoopReceive_Prepend(log, f) ==
  IF f.mt = "text" /\ decode(f).err = Nil THEN <<decode(f).msg>> \o log ELSE log

\* The messages passed to server.Receive after the loop body handled f.
LoopReceive(log, f) ==
  IF f.mt = "text" /\ decode(f).err = Nil THEN Append(log, decode(f).msg) ELSE log

\* A loop that ends on a text frame that fails to decode.
LoopAfter_StopOnDecodeError(f) ==
  IF f.mt = "close" \/ (f.mt = "text" /\ decode(f).err # Nil) THEN "exited" ELSE "next"

\* Where the loop goes after its body handled f.
LoopAfter(f) == IF f.mt = "close" THEN "exited" ELSE "next"

\* The body of the read loop: switch mt.
ReaderDispatch ==
  /\ impl = "Gateway"
  /\ rpc = "dispatch"
  /\ gw' = [gw EXCEPT !.Stats = LoopStats(@, cur)]
  /\ handlerLog' = LoopReceive(handlerLog, cur)
  /\ rpc' = LoopAfter(cur)
  /\ cur' = NoFrame
  /\ UNCHANGED <<offSession, impl, runVars, consumed, conn, peerVars, inbound, wire, cancelled,
                 confVars, verVars, wtVars>>

\* ------------------------------------------------------- Gateway.WriteText
\* The Stats of the receiver's copy when WriteText returns.  nwErr is the
\* error of NextWriter, cpErr that of io.Copy.
WriteTextCopyStats(st, bound, nwErr, cpErr) ==
  IF ~bound THEN [st EXCEPT !.WriteNoConnError = @ + 1]
  ELSE IF nwErr # Nil THEN st
  ELSE IF cpErr # Nil THEN [st EXCEPT !.WriteTextError = @ + 1]
  ELSE [st EXCEPT !.WriteTextOk = @ + 1]

\* The Stats of the session's Gateway after a WriteText call that left the
\* receiver's copy with copyStats: the receiver is a value, the counters of
\* the copy are dropped on return.
WriteTextStats(st, copyStats) == st

\* A WriteText call has been made and has not returned.
Running == [called |-> FALSE, running |-> TRUE]

\* A WriteText that waits while the read loop is inside the receive handler.
WriteTextWaits_ForHandler(r) == r = "dispatch"

\* What WriteText waits for in the read loop at r: it takes no lock and
\* reads no channel.
WriteTextWaits(r) == FALSE

\* The server calls WriteText(r), at any time once it holds the Gateway.
WriteTextCall ==
  /\ impl = "Gateway"
  /\ wtCalls < MaxWrites
  /\ wtLast # Running
  /\ wtCalls' = wtCalls + 1
  /\ wtLast' = Running
  /\ UNCHANGED <<offSession, impl, runVars, loopVars, gw, conn, peerVars, inbound, wire,
                 cancelled, confVars, verVars>>

\* WriteText(r) from its call to its return: NextWriter, io.Copy(w, r); the
\* writer is left open.
WriteText ==
  /\ impl = "Gateway"
  /\ wtLast = Running
  /\ ~WriteTextWaits(rpc)
  /\ wtCalls' = wtCalls
  /\ \E r \in Readers :
       IF ~conn.bound
       THEN /\ wtLast' = [called |-> TRUE, bound |-> FALSE, err |-> Err("no connection"),
                          before |-> gw.Stats, wireBefore |-> wire,
                          copy |-> WriteTextCopyStats(gw.Stats, FALSE, Nil, Nil)]
            /\ gw' = [gw EXCEPT !.Stats = WriteTextStats(@, wtLast'.copy)]
            /\ UNCHANGED <<conn, wire>>
       ELSE LET nw == NextWriter(conn, wire)
                cpErr == IF r.fails THEN Err("read failed") ELSE Nil
                err == IF nw.err # Nil THEN nw.err ELSE cpErr
            IN /\ wire' = nw.wire
               /\ conn' = IF nw.err # Nil THEN nw.conn
                          ELSE WriteTo(nw.conn, IF r.fails THEN GarbageFrame
                                                 ELSE TextFrame(r.data))
               /\ wtLast' = [called |-> TRUE, bound |-> TRUE, err |-> err,
                             before |-> gw.Stats, wireBefore |-> wire,
                             copy |-> WriteTextCopyStats(gw.Stats, TRUE, nw.err, cpErr)]
               /\ gw' = [gw EXCEPT !.Stats = WriteTextStats(@, wtLast'.copy)]
  /\ UNCHANGED <<offSession, impl, runVars, loopVars, peerVars, inbound, cancelled, confVars,
                 verVars>>

\* --------------------------------------------------------- connHandler.run
\* go ch.writer(ctx); the read loop runs in run itself.
StartWriter ==
  /\ impl = "connHandler"
  /\ pc = "startLoop"
  /\ rpc' = "next"
  /\ pc' = "loop"
  /\ UNCHANGED <<offSession, impl, runErr, cur, consumed, handlerLog, gw, conn, peerVars, inbound,
                 wire, cancelled, confVars, verVars, wtVars>>

\* ch.ws.NextReader() in run: an error ends run, the deferred ws.Close() of
\* StationHandler.ServeHTTP runs.  A read deadline left on the connection
\* ends the read of a silent device.
LoopNext ==
  /\ impl = "connHandler"
  /\ pc = "loop"
  /\ rpc = "next"
  /\ \/ /\ inbound # <<>>
        /\ LET f == inbound[1] IN
           /\ inbound' = Tail(inbound)
           /\ IF IsData(f)
              THEN /\ rpc' = "dispatch" /\ cur' = f /\ consumed' = Append(consumed, f)
                   /\ conn' = conn
                   /\ UNCHANGED runVars
              ELSE /\ rpc' = "exited" /\ cur' = cur /\ consumed' = consumed
                   /\ RunReturn(AfterControl(conn, f), Err("websocket: read error"))
     \/ /\ conn.readDeadline /\ inbound = <<>>
        /\ rpc' = "exited"
        /\ RunReturn(conn, Err("i/o timeout"))
        /\ UNCHANGED <<inbound, cur, consumed>>
  /\ UNCHANGED <<offSession, impl, handlerLog, gw, peerVars, wire, cancelled, confVars, verVars,
                 wtVars>>

\* The messages passed to Handler.Receive after readText handled f.
readText(log, f) ==
  IF decode(f).err = Nil THEN Append(log, decode(f).msg) ELSE log

\* switch mt in run: a text frame goes to readText, a close frame ends run,
\* anything else is skipped.
LoopDispatch ==
  /\ impl = "connHandler"
  /\ pc = "loop"
  /\ rpc = "dispatch"
  /\ handlerLog' = IF cur.mt = "text" THEN readText(handlerLog, cur) ELSE handlerLog
  /\ cur' = NoFrame
  /\ IF cur.mt = "close"
     THEN rpc' = "exited" /\ RunReturn(conn, Nil)
     ELSE rpc' = "next" /\ UNCHANGED <<runVars, conn>>
  /\ UNCHANGED <<offSession, impl, consumed, gw, peerVars, inbound, wire, cancelled, confVars,
                 verVars, wtVars>>

\* ------------------------------------------------- caller, device, network
\* The caller cancels the context passed to Run.
Cancel ==
  /\ impl = "Gateway"
  /\ conn.bound
  /\ ~cancelled
  /\ cancelled' = TRUE
  /\ UNCHANGED <<offSession, impl, runVars, loopVars, gw, conn, peerVars, inbound, wire, confVars,
                 verVars, wtVars>>

PeerCanSend == conn.bound /\ ~conn.closed /\ netUp /\ ~peerDone

\* The device sends a data frame.
PeerSend ==
  /\ PeerCanSend
  /\ sentCount < MaxFrames
  /\ sentCount' = sentCount + 1
  /\ \E f \in SessionFrames : inbound' = Append(inbound, f)
  /\ UNCHANGED <<offSession, impl, runVars, loopVars, gw, conn, netUp, peerDone, wire, cancelled,
                 confVars, verVars, wtVars>>

\* The device sends a close frame.
PeerClose ==
  /\ PeerCanSend
  /\ peerDone' = TRUE
  /\ inbound' = Append(inbound, CloseFrame)
  /\ UNCHANGED <<offSession, impl, runVars, loopVars, gw, conn, netUp, sentCount, wire, cancelled,
                 confVars, verVars, wtVars>>

\* The transport fails: reads past the frames already received report an
\* error, writes fail.
NetFail ==
  /\ PeerCanSend
  /\ netUp' = FALSE
  /\ peerDone' = TRUE
  /\ inbound' = Append(inbound, ReadError)
  /\ UNCHANGED <<offSession, impl, runVars, loopVars, gw, conn, sentCount, wire, cancelled,
                 confVars, verVars, wtVars>>

\* ----------------------------------------------------------- specification
\* The steps of the runner's own goroutine, and those of Run's read goroutine.
RunStep ==
  \/ readVersionStart
  \/ readVersionFrame
  \/ readVersionTimeout
  \/ GetRouterConf
  \/ WriteConf
  \/ StartReadLoop
  \/ WaitCtx
  \/ StartWriter
  \/ LoopNext
  \/ LoopDispatch

ReaderStep == ReaderNext \/ ReaderDispatch

Next ==
  \/ readVersionStart
  \/ readVersionFrame
  \/ readVersionTimeout
  \/ GetRouterConf
  \/ WriteConf
  \/ StartReadLoop
  \/ WaitCtx
  \/ ReaderNext
  \/ ReaderDispatch
  \/ WriteTextCall
  \/ WriteText
  \/ StartWriter
  \/ LoopNext
  \/ LoopDispatch
  \/ Cancel
  \/ PeerSend
  \/ PeerClose
  \/ NetFail

Spec == Init /\ [][Next]_vars

\* A goroutine that can take a step takes one; the caller, the device and
\* the network owe nothing.
FairSpec == Spec /\ WF_vars(RunStep) /\ WF_vars(ReaderStep)

\* ------------------------------------------------------- codec, on its own
\* Values of msgtype a frame may carry; NoKey for a frame without the key.
NoKey == [t |-> "absent"]
MsgTypeValues ==
  {NoKey, Str("jreq"), Str("updf"), Str("dntxed"), Str("version"), Str("propdf"),
   Str("bogus"), Str(""), Str("UPDF"), Num(1), Bool(TRUE), Arr(<<>>)}

MinInt32 == -2147483647 - 1
MaxInt32 == 2147483647

\* The receive context as a station puts it on the wire.
WireRx == [rctx |-> Num(1), xtime |-> Num(2), gpstime |-> Num(3)]
WireRadio == [rssi |-> Num(-50), snr |-> Num(7)]

\* What a frame carries besides msgtype.
Bodies ==
  {<<>>}
  \cup {[DevAddr |-> v] : v \in {Num(-1), Num(0), Num(100), Num(MinInt32), Num(MaxInt32),
                                 Str("x")}}
  \cup {[DevAddr |-> Num(100), MHdr |-> Num(300), FPort |-> Num(200)],
        [DevAddr |-> Num(100), upinfo |-> Obj(WireRx @@ WireRadio)],
        [DevAddr |-> Num(100)] @@ WireRx @@ WireRadio,
        [diid |-> Num(7), DevEui |-> Str("00-00-00-00-00-00-00-01"), txtime |-> Num(5)]
          @@ WireRx,
        [station |-> Str("st1"), protocol |-> Num(2), firmware |-> Str("fw")],
        [station |-> Num(1), protocol |-> Num(-2)]}

WithMsgType(body, v) == IF v = NoKey THEN body ELSE body @@ [msgtype |-> v]

CodecFrames == {TextFrame(WithMsgType(b, v)) : b \in Bodies, v \in MsgTypeValues}

\* Populated records of the supported variants.
RxRec == [type |-> "RxContext", f |-> [RCTX |-> 1, XTime |-> 2, GPSTime |-> 3]]
UpInfoRec == [type |-> "UpInfo", f |-> [RSSI |-> -50, SNR |-> 7, RCtx |-> RxRec]]
VersionRec ==
  [type |-> "Version",
   f |-> [Station |-> "st1", Firmware |-> "fw", Package |-> "pk", Model |-> "md",
          Protocol |-> 2, Features |-> "rmtsh", MsgType |-> "version"]]
JoinRequestRec ==
  [type |-> "JoinRequest",
   f |-> [MsgType |-> "jreq", MHdr |-> 0, JoinEUI |-> "00-00-00-00-00-00-00-02",
          DevEUI |-> "00-00-00-00-00-00-00-03", DevNonce |-> 9, MIC |-> -5, DR |-> 3,
          Freq |-> 902300000, UpInfo |-> UpInfoRec]]
UplinkRec(addr) ==
  [type |-> "Uplink",
   f |-> [MHdr |-> 64, DevAddr |-> addr, FCtrl |-> 128, FCnt |-> 9, FOpts |-> "",
          FPort |-> 1, FRMPayload |-> "0a", MIC |-> -5, DR |-> 3, Freq |-> 902300000,
          UpInfo |-> UpInfoRec, MsgType |-> "updf"]]
DnTxedRec(rev) ==
  [type |-> "DnTxed",
   f |-> [DIID |-> 7, DevEUI |-> IF rev = "part_000" THEN 1 ELSE "00-00-00-00-00-00-00-01",
          TXTime |-> 5, RCtx |-> RxRec]]

CodecRecords(rev) ==
  {VersionRec, [VersionRec EXCEPT !.f.Station = "st2", !.f.Protocol = 1], JoinRequestRec,
   UplinkRec(100), DnTxedRec(rev)}
  \cup (IF rev = "part_001" THEN {UplinkRec(-1)} ELSE {})

IsFrame(x) == "mt" \in DOMAIN x

\* A call of decode, or of Encode and then decode, about to be made.
CodecInit ==
  /\ NoSession /\ ident = NoIdent /\ disc = NoDisc /\ bind = NoBind
  /\ \E rev \in Revisions :
       \E conv \in (IF rev = "part_000" THEN UintConv ELSE {"error"}) :
         \E x \in CodecFrames \cup CodecRecords(rev) :
           codec = [op |-> "ready", rev |-> rev, conv |-> conv, in |-> x]

\* decode(r) on the frame.
Decode ==
  /\ codec.op = "ready"
  /\ IsFrame(codec.in)
  /\ codec' = [op |-> "decoded", rev |-> codec.rev, conv |-> codec.conv, in |-> codec.in,
               out |-> decodeRev(codec.rev, codec.conv, codec.in)]
  /\ UNCHANGED <<sessionVars, ident, disc, bind>>

\* decode(Encode(m)) on the record.
RoundTrip ==
  /\ codec.op = "ready"
  /\ ~IsFrame(codec.in)
  /\ codec' = [op |-> "roundtrip", rev |-> codec.rev, conv |-> codec.conv,
               in |-> codec.in,
               out |-> decodeRev(codec.rev, codec.conv, Encode(codec.rev, codec.in))]
  /\ UNCHANGED <<sessionVars, ident, disc, bind>>

CodecNext == Decode \/ RoundTrip

SpecCodec == CodecInit /\ [][CodecNext]_vars

\* ------------------------------------------------ identifiers, on their own
\* Words an identifier is built from: zero, one, a low byte, mixed digits,
\* letters only, all ones.
EUIWords == {0, 1, 255, 4660, 43981, 65535}
EUIs == {<<a, b, c, d>> : a \in EUIWords, b \in EUIWords, c \in EUIWords, d \in EUIWords}

Rep(c, n) == [i \in 1..n |-> c]

\* Identifier texts a device may send: short, empty, colon groups, dashed
\* and colon-separated bytes, a long group, no hex at all, seventeen digits
\* with and without a leading zero, upper case.
DashedOne == <<"0", "0", "-", "0", "0", "-", "0", "0", "-", "0", "0", "-", "0", "0", "-", "0", "0", "-", "0", "0", "-", "0", "1">>
ColonOne == <<"0", "0", ":", "0", "0", ":", "0", "0", ":", "0", "0", ":", "0", "0", ":", "0", "0", ":", "0", "0", ":", "0", "1">>
GroupsText == <<"0", "1", "0", "2", ":", "0", "3", "0", "4", ":", "0", "5", "0", "6", ":", "0", "7", "0", "8">>

EUITexts ==
  {<<"1">>, <<>>, <<"z", "z">>, DashedOne, ColonOne, GroupsText, Rep("0", 4) \o <<"1">>,
   Rep("z", 16), Rep("0", 16), Rep("0", 16) \o <<"1">>, <<"1">> \o Rep("0", 16),
   Rep("0", 14) \o <<"A", "b">>, <<"1", ":">>, <<":", "1">>}

EUIValues == {Str(t) : t \in EUITexts} \cup {Num(0), Num(1), Num(70000), Bool(TRUE)}

EUIInit ==
  /\ NoSession /\ codec = NoCodec /\ disc = NoDisc /\ bind = NoBind
  /\ \E go \in GoParsers :
       \/ \E id \in EUIs : ident = [op |-> "ready", go |-> go, id |-> id]
       \/ \E val \in EUIValues : ident = [op |-> "received", go |-> go, val |-> val]

\* toString(id).
Format ==
  /\ ident.op = "ready"
  /\ ident' = [op |-> "formatted", go |-> ident.go, id |-> ident.id,
               val |-> Str(toString(ident.id))]
  /\ UNCHANGED <<sessionVars, codec, disc, bind>>

\* parseEUI(val), on a formatted identifier or on a received value.
Parse ==
  /\ ident.op \in {"formatted", "received"}
  /\ ident' = [ident EXCEPT !.op = IF ident.op = "formatted" THEN "reparsed" ELSE "parsed"]
                @@ [out |-> parseEUI(ident.go, ident.val)]
  /\ UNCHANGED <<sessionVars, codec, disc, bind>>

EUINext == Format \/ Parse

SpecEUI == EUIInit /\ [][EUINext]_vars

\* -------------------------------------------------------------- discovery
\* The discovery handler runs on the connection variables of the model:
\* conn, netUp, peerDone, inbound, sentCount, wire and consumed; disc holds
\* the handler's own state and that of its collaborator.
MaxRequests == 2

\* The text of a character sequence.
RECURSIVE Join(_)
Join(cs) == IF cs = <<>> THEN "" ELSE cs[1] \o Join(Tail(cs))

ZeroDiscoveryResponse == [Router |-> "", URI |-> "", MUXS |-> "", Error |-> ""]

\* The json tags of DiscoveryResponse, all omitempty.
DiscoveryTags == [router |-> "Router", uri |-> "URI", muxs |-> "MUXS", error |-> "Error"]

\* json.NewEncoder(writer).Encode(&response) and conn.WriteJSON(&response).
EncodeDiscoveryResponse(r) ==
  [k \in {j \in DOMAIN DiscoveryTags : r[DiscoveryTags[j]] # ""} |-> Str(r[DiscoveryTags[k]])]

\* conn.ReadJSON(&f.DResp) at the device.
ReadDiscoveryResponse(obj) ==
  [g \in {DiscoveryTags[j] : j \in DOMAIN DiscoveryTags} |->
     LET k == CHOOSE j \in DOMAIN DiscoveryTags : DiscoveryTags[j] = g IN
     IF k \in DOMAIN obj THEN obj[k].s ELSE ""]

\* The two handlers of the repository.
Handlers == {"handlers.go", "part_002"}

\* What the resolution collaborator does: the test server returns a fixed
\* response without router, a server may echo the identifier, the lookup may
\* fail, with the zero response or with the response it had prepared, and
\* the station repository of part_002 may not know the station.
Collaborators == {"fixed", "echo", "fails", "failsWith", "unknown"}

GetDiscoveryResponse(collab, eui) ==
  CASE collab = "fixed" ->
         [err |-> Nil,
          resp |-> [ZeroDiscoveryResponse EXCEPT
                      !.URI = "ws://discovery-test.com:8080/0000000000000001",
                      !.MUXS = "TBD"]]
    [] collab = "echo" ->
         [err |-> Nil,
          resp |-> [Router |-> Join(toString(eui)), URI |-> "ws://muxs/" \o Join(toString(eui)),
                    MUXS |-> "muxs-0", Error |-> ""]]
    [] collab = "failsWith" ->
         [err |-> Err("no discovery response"),
          resp |-> [ZeroDiscoveryResponse EXCEPT !.URI = "ws://default:8080", !.MUXS = "TBD"]]
    [] OTHER -> [err |-> Err("no discovery response"), resp |-> ZeroDiscoveryResponse]

\* The identifier parser of the handler: parseEUI in part_002; handlers.go
\* calls NewEUI of the lorawan package, the same utility moved out of the
\* repository, and String for the canonical text.
NewEUI(go, val) == parseEUI(go, val)
String(eui) == Join(toString(eui))

One == <<"1">>
NotHex == <<"z", "z">>

DiscoveryObjects ==
  {[router |-> Str(One)], [router |-> Num(1)], [Router |-> Str(Rep("0", 15) \o One)],
   [router |-> Str(NotHex)], [router |-> Bool(TRUE)], <<>>, [other |-> Num(1)],
   [router |-> Str(One), Router |-> Str(NotHex)],
   [router |-> Str(One), other |-> Num(1)],
   [router |-> Str(NotHex), other |-> Num(1)],
   [router |-> Str(One), Router |-> Str(GroupsText)]}

DiscoveryRequests ==
  {TextFrame(o) : o \in DiscoveryObjects} \cup {GarbageFrame, BinaryFrame([router |-> Str(One)])}

PingFrame == [mt |-> "ping"]

DiscInit ==
  /\ impl = "DiscoveryHandler"
  /\ conn = NewConn(FALSE)
  /\ SessionStart
  /\ codec = NoCodec /\ ident = NoIdent /\ bind = NoBind
  /\ \E rev \in Handlers : \E go \in GoParsers :
       \E collab \in (IF rev = "part_002" THEN Collaborators ELSE Collaborators \ {"unknown"}) :
         disc = [rev |-> rev, go |-> go, collab |-> collab, pc |-> "start", msg |-> <<>>,
                 todo |-> {}, eui |-> ZeroEUI, response |-> ZeroDiscoveryResponse,
                 resolved |-> Nil, calls |-> 0, parseFailed |-> FALSE, panicked |-> FALSE,
                 pinged |-> FALSE]

\* The session variables the discovery handler never touches.
discIdle ==
  <<codec, ident, bind, impl, pc, runErr, rpc, cur, gw, cancelled, handlerLog, confCalls, supplied,
    timedOut, first, wtCalls, wtLast>>

\* A handler that returns without closing.
DeferredClose_Leak(c) == c

\* defer conn.Close(), run when ServeHTTP returns or panics.
DeferredClose(c) == Close(c)

\* ServeHTTP returns with connection c.
DiscReturn(d, c) ==
  /\ disc' = [d EXCEPT !.pc = "returned"]
  /\ conn' = DeferredClose(c)

\* upgrader.Upgrade and, when it succeeds, SetReadDeadline.
DiscUpgrade ==
  /\ impl = "DiscoveryHandler"
  /\ disc.pc = "start"
  /\ \/ /\ conn' = [NewConn(TRUE) EXCEPT !.readDeadline = TRUE]
        /\ disc' = [disc EXCEPT !.pc = "read"]
     \/ /\ disc' = [disc EXCEPT !.pc = "returned"]
        /\ conn' = conn
  /\ UNCHANGED <<discIdle, netUp, peerDone, inbound, sentCount, wire, consumed>>

\* conn.WriteJSON(v): NextWriter, Encode, Close of the writer.
WriteJSON(c, w, obj) ==
  LET nw == NextWriter(c, w) IN
  IF nw.err # Nil THEN [conn |-> nw.conn, wire |-> nw.wire]
  ELSE FlushWriter(WriteTo(nw.conn, TextFrame(obj)), nw.wire)

\* A handler that answers a failed read with an error response.
ReadFailed_Reply(c, w) ==
  WriteJSON(c, w, EncodeDiscoveryResponse([ZeroDiscoveryResponse EXCEPT !.Error = "No request"]))

\* "if err != nil { log; return }" after NextReader: nothing is written.
ReadFailed(c, w) == [conn |-> c, wire |-> w]

\* conn.NextReader answering a ping: the pong is a write, and a failed write
\* leaves the connection with a write error.  NextReader goes on reading.
DiscPong ==
  /\ impl = "DiscoveryHandler"
  /\ disc.pc = "read"
  /\ inbound # <<>> /\ inbound[1] = PingFrame
  /\ inbound' = Tail(inbound)
  /\ conn' = [conn EXCEPT !.writeErr = @ \/ ~CanSend(conn)]
  /\ UNCHANGED <<discIdle, disc, netUp, peerDone, sentCount, wire, consumed>>

\* conn.NextReader and decode of the one request: a frame of either data
\* type whose payload is a JSON object starts the loop over its keys; a
\* close frame, a transport error, the deadline or a bad payload ends the
\* handler.
DiscNextReader ==
  /\ impl = "DiscoveryHandler"
  /\ disc.pc = "read"
  /\ \/ /\ inbound # <<>> /\ inbound[1] # PingFrame
        /\ LET f == inbound[1] IN
           /\ inbound' = Tail(inbound)
           /\ IF IsData(f)
              THEN /\ consumed' = Append(consumed, f)
                   /\ IF f.wf
                      THEN /\ disc' = [disc EXCEPT !.pc = "range", !.msg = f.obj,
                                                   !.todo = DOMAIN f.obj]
                           /\ conn' = conn
                      ELSE DiscReturn(disc, conn)
                   /\ wire' = wire
              ELSE LET rf == ReadFailed(AfterControl(conn, f), wire) IN
                   /\ consumed' = consumed
                   /\ DiscReturn(disc, rf.conn)
                   /\ wire' = rf.wire
     \/ /\ inbound = <<>>
        /\ LET rf == ReadFailed(conn, wire) IN
           DiscReturn(disc, rf.conn) /\ wire' = rf.wire
        /\ UNCHANGED <<inbound, consumed>>
  /\ UNCHANGED <<discIdle, netUp, peerDone, sentCount>>

\* The response of the parse-failure branch: handlers.go sets Error in the
\* response variable of the function, part_002 builds a new response.
ErrorResponse(rev, response) ==
  IF rev = "handlers.go" THEN [response EXCEPT !.Error = "Missing router field"]
  ELSE [ZeroDiscoveryResponse EXCEPT !.Error = "Missing router field"]

\* One iteration of "for k, v := range msg" on key k, from handler state d,
\* connection c and wire w: a router key that parses sets the identifier, one
\* that does not is answered with the error response, any other key ends
\* the handler.
RangeStep(d, c, w, k) ==
  IF k \in {"router", "Router"}
  THEN LET p == NewEUI(d.go, d.msg[k]) IN
       IF p.err # Nil
       THEN LET r == ErrorResponse(d.rev, d.response)
                wj == WriteJSON(c, w, EncodeDiscoveryResponse(r))
            IN [disc |-> [d EXCEPT !.response = r, !.parseFailed = TRUE, !.pc = "returned"],
                conn |-> DeferredClose(wj.conn),
                wire |-> wj.wire]
       ELSE [disc |-> [d EXCEPT !.eui = p.v, !.todo = @ \ {k},
                                !.response = IF d.rev = "handlers.go"
                                             THEN [@ EXCEPT !.Router = String(p.v)]
                                             ELSE @],
             conn |-> c,
             wire |-> w]
  ELSE [disc |-> [d EXCEPT !.pc = "returned"], conn |-> DeferredClose(c), wire |-> w]

\* The loop visits any key not yet visited: the order of a Go map is not
\* fixed.
DiscRange ==
  /\ impl = "DiscoveryHandler"
  /\ disc.pc = "range"
  /\ \E k \in disc.todo :
       LET s == RangeStep(disc, conn, wire, k) IN
       /\ disc' = s.disc
       /\ conn' = s.conn
       /\ wire' = s.wire
  /\ UNCHANGED <<discIdle, netUp, peerDone, inbound, sentCount, consumed>>

\* A handler that keeps the router it filled in itself.
Resolved_KeepRouter(response, result) == [result.resp EXCEPT !.Router = response.Router]

\* The response variable after the collaborator returned: handlers.go
\* assigns the result to it whatever the error.
Resolved(response, result) == result.resp

\* After the loop: handlers.go calls Server.GetDiscoveryResponse and drops
\* its error; part_002 looks the station up and asks it, and returns when
\* either fails.
DiscResolve ==
  /\ impl = "DiscoveryHandler"
  /\ disc.pc = "range"
  /\ disc.todo = {}
  /\ LET result == GetDiscoveryResponse(disc.collab, disc.eui) IN
     IF disc.rev = "part_002" /\ disc.collab = "unknown"
     THEN DiscReturn([disc EXCEPT !.calls = @ + 1], conn)
     ELSE IF disc.rev = "part_002" /\ result.err # Nil
     THEN DiscReturn([disc EXCEPT !.calls = @ + 1], conn)
     ELSE /\ disc' = [disc EXCEPT !.pc = "writer", !.calls = @ + 1, !.resolved = result,
                                  !.response = Resolved(disc.response, result)]
          /\ conn' = conn
  /\ UNCHANGED <<discIdle, netUp, peerDone, inbound, sentCount, wire, consumed>>

\* conn.NextWriter, "defer writer.Close()", Encode and the deferred calls.
\* When NextWriter fails the writer is nil and the defer statement panics;
\* conn.Close, deferred before, still runs.
DiscWrite ==
  /\ impl = "DiscoveryHandler"
  /\ disc.pc = "writer"
  /\ LET nw == NextWriter(conn, wire) IN
     IF nw.err # Nil
     THEN /\ DiscReturn([disc EXCEPT !.panicked = TRUE], nw.conn)
          /\ wire' = nw.wire
     ELSE LET fl == FlushWriter(WriteTo(nw.conn,
                                        TextFrame(EncodeDiscoveryResponse(disc.response))),
                                nw.wire)
          IN /\ DiscReturn(disc, fl.conn)
             /\ wire' = fl.wire
  /\ UNCHANGED <<discIdle, netUp, peerDone, inbound, sentCount, consumed>>

\* The device sends a request; what it sends after its first frame is
\* never looked at, and one frame stands for all.
DiscSend ==
  /\ impl = "DiscoveryHandler"
  /\ PeerCanSend
  /\ sentCount < MaxRequests
  /\ sentCount' = sentCount + 1
  /\ \E f \in (IF sentCount = 0 THEN DiscoveryRequests ELSE {TextFrame([router |-> Num(1)])}) :
       inbound' = Append(inbound, f)
  /\ UNCHANGED <<discIdle, disc, conn, netUp, peerDone, wire, consumed>>

\* The device sends a ping before its request.
DiscPing ==
  /\ impl = "DiscoveryHandler"
  /\ PeerCanSend
  /\ ~disc.pinged /\ sentCount = 0
  /\ disc' = [disc EXCEPT !.pinged = TRUE]
  /\ inbound' = Append(inbound, PingFrame)
  /\ UNCHANGED <<discIdle, conn, netUp, peerDone, sentCount, wire, consumed>>

DiscNext ==
  \/ DiscUpgrade
  \/ DiscPong
  \/ DiscNextReader
  \/ DiscRange
  \/ DiscResolve
  \/ DiscWrite
  \/ DiscSend
  \/ DiscPing
  \/ PeerClose
  \/ NetFail

SpecDisc == DiscInit /\ [][DiscNext]_vars

\* -------------------------------------------------------- session binding
\* The HTTP handlers of the session path "/{eui}": GatewayHandler of
\* handlers.go and StationHandler of part_002.  The connection is conn.
SessionHandlers == {"GatewayHandler", "StationHandler"}

\* Repo.GetStation of part_002: the demo repository answers for every
\* identifier, another one may know none.
Repos == {"any", "none"}

BindInit ==
  /\ impl = "none"
  /\ conn = NewConn(FALSE)
  /\ SessionStart
  /\ codec = NoCodec /\ ident = NoIdent /\ disc = NoDisc
  /\ \E h \in SessionHandlers : \E go \in GoParsers : \E v \in EUITexts :
       \E repo \in (IF h = "StationHandler" THEN Repos ELSE {"any"}) :
         bind = [handler |-> h, go |-> go, v |-> v, repo |-> repo, pc |-> "parse",
                 eui |-> ZeroEUI, parseErr |-> Nil, handed |-> FALSE]

\* The variables binding leaves alone.
bindIdle ==
  <<codec, ident, disc, impl, pc, runErr, rpc, cur, gw, netUp, peerDone, inbound, sentCount,
    wire, cancelled, handlerLog, consumed, confCalls, supplied, timedOut, first, wtCalls,
    wtLast>>

\* vars["eui"] and its parse: GatewayHandler returns on an error,
\* StationHandler logs it and goes on with the zero identifier.
BindParse ==
  /\ bind.pc = "parse"
  /\ LET p == NewEUI(bind.go, Str(bind.v)) IN
     bind' = [bind EXCEPT
                !.eui = p.v,
                !.parseErr = p.err,
                !.pc = IF bind.handler = "GatewayHandler"
                       THEN (IF p.err # Nil THEN "returned" ELSE "upgrade")
                       ELSE "getStation"]
  /\ UNCHANGED <<bindIdle, conn>>

\* sh.Env.Repo.GetStation(eui): an unknown station ends the request.
BindGetStation ==
  /\ bind.pc = "getStation"
  /\ bind' = [bind EXCEPT !.pc = IF bind.repo = "any" THEN "upgrade" ELSE "returned"]
  /\ UNCHANGED <<bindIdle, conn>>

\* upgrader.Upgrade(w, r, nil).
BindUpgrade ==
  /\ bind.pc = "upgrade"
  /\ \/ conn' = NewConn(TRUE) /\ bind' = [bind EXCEPT !.pc = "handOver"]
     \/ conn' = conn /\ bind' = [bind EXCEPT !.pc = "returned"]
  /\ UNCHANGED bindIdle

\* Server.NewConnection(&gw), or ch.run(): the session is handed over.
BindHandOver ==
  /\ bind.pc = "handOver"
  /\ bind' = [bind EXCEPT !.pc = "session", !.handed = TRUE]
  /\ UNCHANGED <<bindIdle, conn>>

BindNext == BindParse \/ BindGetStation \/ BindUpgrade \/ BindHandOver

SpecBind == BindInit /\ [][BindNext]_vars

\* ------------------------------------------------------------------ claims
\* States of the session state machine.
AwaitVersion == pc = "readVersion"
Active == pc \in {"startLoop", "waitCtx", "loop"}
Closed == pc = "returned" /\ conn.closed

\* The version read succeeded.
VersionRead == first # NoFrame /\ first.err = Nil

\* Frames of the wire that carry a router configuration.
ConfFrames == {EncodeRouterConf(c) : c \in Confs \cup {ZeroRouterConf}}
IsConf(e) == e.frame \in ConfFrames
ConfWritten == \E i \in DOMAIN wire : IsConf(wire[i])
ConfCount == Cardinality({i \in DOMAIN wire : IsConf(wire[i])})

\* The frames the device received, in order.
Received == SelectSeq(wire, LAMBDA e : e.delivered)

\* C1: the configuration frame is written only after a version message has
\* been read successfully; the receive loop starts, and the receive handler
\* is first invoked, only after the configuration write has completed.
C1_HandshakeSequential ==
  /\ (AsksConf(pc) \/ confCalls > 0 \/ ConfWritten \/ pc = "writeConf") => VersionRead
  /\ (rpc # "none" \/ handlerLog # <<>> \/ Active) => (VersionRead /\ ConfWritten)

C1_Witness == VersionRead /\ ConfWritten /\ handlerLog # <<>>

\* C2: when the read deadline passes with no version received, the session
\* has ended with the connection closed, GetRouterConf was never called and
\* no configuration frame was written; while the session waits for the
\* version the deadline is armed.
C2_NoVersionNoConf ==
  /\ AwaitVersion => conn.readDeadline
  /\ timedOut => /\ Closed
                 /\ runErr # Nil
                 /\ confCalls = 0
                 /\ ~ConfWritten
                 /\ rpc = "none"
                 /\ handlerLog = <<>>

C2_Witness == timedOut /\ Closed /\ confCalls = 0 /\ wire = <<>>

\* A step of the read loop body of Gateway.Run on the frame in hand.
DispatchStep == impl = "Gateway" /\ rpc = "dispatch" /\ rpc' # "dispatch"

\* C3: in an Active session a text frame that fails to decode adds exactly 1
\* to DecodeErrors, does not reach the receive handler and leaves the loop
\* running; a text frame that decodes is passed to the handler whatever
\* failed before it.
C3_DecodeErrorNotFatal ==
  [][DispatchStep /\ cur.mt = "text" =>
       IF decode(cur).err # Nil
       THEN /\ gw'.Stats = [gw.Stats EXCEPT !.DecodeErrors = @ + 1]
            /\ handlerLog' = handlerLog
            /\ rpc' = "next"
            /\ pc' = pc
            /\ conn' = conn
       ELSE /\ handlerLog' = Append(handlerLog, decode(cur).msg)
            /\ gw'.Stats = gw.Stats
            /\ rpc' = "next"]_vars

C3_Witness ==
  /\ impl = "Gateway"
  /\ Active
  /\ gw.Stats.DecodeErrors = 1
  /\ consumed = <<GarbageFrame, TextFrame(UplinkObj)>>
  /\ handlerLog = <<decode(TextFrame(UplinkObj)).msg>>

\* The frames of s the handler is owed: the text frames that decode, as
\* their decoded messages, in the order of s.
RECURSIVE Deliveries(_)
Deliveries(s) ==
  IF s = <<>> THEN <<>>
  ELSE LET f == s[1] IN
       (IF f.mt = "text" /\ decode(f).err = Nil THEN <<decode(f).msg>> ELSE <<>>)
       \o Deliveries(Tail(s))

\* The frames the loop body has handled: those read, less the one in hand.
Handled == IF rpc = "dispatch" THEN SubSeq(consumed, 1, Len(consumed) - 1) ELSE consumed

\* C4: the receive handler has been invoked exactly once for each text frame
\* that decoded, in the order the frames were received.
C4_DeliveredInOrder == handlerLog = Deliveries(Handled)

C4_Witness ==
  /\ consumed = <<TextFrame(UplinkObj), TextFrame(VersionObj)>>
  /\ handlerLog = <<decode(TextFrame(UplinkObj)).msg, decode(TextFrame(VersionObj)).msg>>

\* C5: once the caller's cancellation signal is raised the session ends, Run
\* returned and the connection closed, whatever the device does or does not
\* do.
C5_CancelTerminates == (impl = "Gateway" /\ cancelled) ~> Closed

C5_Witness ==
  /\ cancelled /\ Closed /\ runErr = Nil
  /\ ~peerDone /\ netUp /\ inbound = <<>> /\ rpc = "next"

\* C6: once the session is Active, the end of the receive loop on the
\* device's close frame or on a transport read error, and the cancellation
\* signal, each lead to Closed: Run returned and the connection closed.
C6_ActiveEndsClosed == (Active /\ (rpc = "exited" \/ cancelled)) ~> Closed

\* C7: after a WriteText call on a Gateway with a connection, the Stats of
\* that Gateway show WriteTextOk + WriteTextError one higher than before the
\* call: WriteTextOk when the call returned nil, WriteTextError otherwise.
C7_WriteCountsOne ==
  (wtLast.called /\ wtLast.bound) =>
    /\ gw.Stats.WriteTextOk + gw.Stats.WriteTextError
         = wtLast.before.WriteTextOk + wtLast.before.WriteTextError + 1
    /\ gw.Stats.WriteTextOk
         = wtLast.before.WriteTextOk + (IF wtLast.err = Nil THEN 1 ELSE 0)

\* C8: after a WriteText call on a Gateway without a connection, the call
\* returned "no connection", nothing was written, and the Stats of that
\* Gateway show WriteNoConnError one higher than before the call.
C8_NoConnCounted ==
  (wtLast.called /\ ~wtLast.bound) =>
    /\ wtLast.err = Err("no connection")
    /\ wire = wtLast.wireBefore
    /\ gw.Stats.WriteNoConnError = wtLast.before.WriteNoConnError + 1

\* C9: GetRouterConf is invoked at most once in a session and at most one
\* configuration frame is ever flushed to the connection; in a session that
\* is Active both counts are exactly one, and the frame has reached the
\* device if the transport is up.
C9_ConfOnce ==
  /\ confCalls <= 1
  /\ ConfCount <= 1
  /\ Active => /\ confCalls = 1
               /\ ConfCount = 1
               /\ netUp => \E i \in DOMAIN Received : IsConf(Received[i])

C9_Witness ==
  /\ Active /\ confCalls = 1 /\ ConfCount = 1
  /\ Len(wire) = 2 /\ consumed # <<>>

\* C10: when the first frame of the device was a well-formed version
\* message, the first frame the device receives is the router configuration
\* the collaborator supplied.
C10_FirstReceivedIsConf ==
  (first # NoFrame /\ first.frame = TextFrame(VersionObj) /\ Received # <<>>) =>
    /\ supplied # Nil
    /\ Received[1].frame = EncodeRouterConf(supplied)

\* The frame the codec call decoded is a JSON object.
DecodedObject == codec.op = "decoded" /\ codec.in.wf

\* The msgtype of the decoded frame is the string s.
MsgTypeIs(s) == Has(codec.in.obj, "msgtype") /\ codec.in.obj.msgtype = Str(s)

Supported == {"jreq", "updf", "dntxed", "version", "propdf"}

\* C11: decode returns an error and no message for a JSON object without
\* msgtype and for one whose msgtype is not a string; the read loop counts
\* the frame as a decode error, does not invoke the handler and goes on to
\* the next frame.
C11_BadDiscriminatorFrameError ==
  (DecodedObject /\ (~Has(codec.in.obj, "msgtype") \/ codec.in.obj.msgtype.t # "s")) =>
    /\ codec.out.err # Nil
    /\ codec.out.msg = Nil
    /\ LoopStats(ZeroStats, codec.in) = [ZeroStats EXCEPT !.DecodeErrors = 1]
    /\ LoopReceive(<<>>, codec.in) = <<>>
    /\ LoopAfter(codec.in) = "next"
    /\ readText(<<>>, codec.in) = <<>>

C11_Witness ==
  /\ DecodedObject
  /\ Has(codec.in.obj, "DevAddr")
  /\ Has(codec.in.obj, "msgtype")
  /\ codec.out = [err |-> Err("msgtype is not a string"), msg |-> Nil]

\* C12: for a string msgtype outside jreq, updf, dntxed, version and propdf
\* decode returns no message and an UnsupportedMsgType error that carries
\* the value, and whose text is "unsupported message type: " and the value.
C12_UnsupportedNamesValue ==
  (DecodedObject /\ Has(codec.in.obj, "msgtype") /\ codec.in.obj.msgtype.t = "s"
     /\ codec.in.obj.msgtype.s \notin Supported) =>
    /\ codec.out.msg = Nil
    /\ codec.out.err = UnsupportedMsgType(codec.in.obj.msgtype.s)
    /\ Error(codec.out.err) = "unsupported message type: " \o codec.in.obj.msgtype.s

C12_Witness ==
  /\ DecodedObject
  /\ MsgTypeIs("bogus")
  /\ codec.out.msg = Nil
  /\ codec.out.err.type = "UnsupportedMsgType"
  /\ Error(codec.out.err) = "unsupported message type: bogus"

\* C13: decode of a propdf frame returns no error and no message; the read
\* loop neither counts a decode error for it nor invokes the handler.
C13_PropdfDiscarded ==
  (DecodedObject /\ MsgTypeIs("propdf")) =>
    /\ codec.out.err = Nil
    /\ codec.out.msg = Nil
    /\ LoopStats(ZeroStats, codec.in) = ZeroStats
    /\ LoopReceive(<<>>, codec.in) = <<>>

\* C14: decode of an updf frame whose DevAddr is a signed 32-bit number, a
\* negative one included, returns no error and an Uplink whose DevAddr is
\* that number.
C14_DevAddrSigned ==
  (DecodedObject /\ MsgTypeIs("updf") /\ Has(codec.in.obj, "DevAddr")
     /\ codec.in.obj.DevAddr.t = "n") =>
    /\ codec.out.err = Nil
    /\ codec.out.msg.type = "Uplink"
    /\ codec.out.msg.f.DevAddr = codec.in.obj.DevAddr.n

\* C15: decode(Encode(m)) returns no error and a record equal to m, for the
\* populated records of jreq, updf, dntxed and version.
C15_RoundTrip ==
  codec.op = "roundtrip" => codec.out = [err |-> Nil, msg |-> codec.in]

\* C16: parsing the canonical text of an identifier gives the identifier
\* back, and the canonical text is sixteen lower-case hex digits.
C16_CanonicalRoundTrip ==
  /\ ident.op \in {"formatted", "reparsed"} =>
       /\ Len(ident.val.s) = 16
       /\ \A i \in 1..Len(ident.val.s) : \E k \in 1..16 : LowerHex[k] = ident.val.s[i]
  /\ ident.op = "reparsed" => ident.out.err = Nil /\ ident.out.v = ident.id

\* An identifier with leading zeros and letters has been formatted and parsed.
C16_Witness ==
  /\ ident.op = "reparsed"
  /\ ident.id = <<0, 255, 43981, 1>>
  /\ ident.val.s = Rep("0", 4) \o <<"0", "0", "f", "f", "a", "b", "c", "d">> \o Rep("0", 3) \o <<"1">>

\* The first frame the discovery handler read is the request {"router": "1"}.
RequestOne == consumed # <<>> /\ consumed[1] = TextFrame([router |-> Str(One)])

\* The responses the device received, as it reads them.
DeviceRead ==
  [i \in {j \in 1..Len(wire) : wire[j].delivered} |-> ReadDiscoveryResponse(wire[i].frame.obj)]

\* C17: when the request carries the identifier "1", the response the device
\* receives has router "0000000000000001".
C17_RouterCanonical ==
  RequestOne => \A i \in DOMAIN DeviceRead : DeviceRead[i].Router = "0000000000000001"

\* C18: when the identifier parsed and the collaborator was asked, the one
\* response written is the collaborator's response, field for field.
C18_ResponseIsCollaborators ==
  disc.resolved # Nil =>
    /\ Len(wire) <= 1
    /\ \A i \in 1..Len(wire) :
         /\ wire[i].frame = TextFrame(EncodeDiscoveryResponse(disc.resolved.resp))
         /\ ReadDiscoveryResponse(wire[i].frame.obj) = disc.resolved.resp

\* The device asked with a router field, the test server's fixed response
\* came back and reached the device.
C18_Witness ==
  /\ disc.pc = "returned"
  /\ disc.rev = "handlers.go" /\ disc.collab = "fixed"
  /\ disc.msg = [router |-> Num(1)]
  /\ disc.eui = <<0, 0, 0, 1>>
  /\ DOMAIN DeviceRead = {1}
  /\ DeviceRead[1] = [Router |-> "", URI |-> "ws://discovery-test.com:8080/0000000000000001",
                    MUXS |-> "TBD", Error |-> ""]

\* C19: when the identifier fails to parse, the collaborator is not invoked,
\* the connection is closed, and the one response written carries the error
\* string and nothing else.
C19_ParseFailureErrorOnly ==
  disc.parseFailed =>
    /\ disc.calls = 0
    /\ conn.closed
    /\ Len(wire) <= 1
    /\ netUp => Len(wire) = 1
    /\ \A i \in 1..Len(wire) :
         ReadDiscoveryResponse(wire[i].frame.obj)
           = [ZeroDiscoveryResponse EXCEPT !.Error = "Missing router field"]

\* C20: after the upgrade at most one message is read and at most one
\* response written, and the connection is closed once the handler returned.
C20_OneExchange ==
  /\ Len(consumed) <= 1
  /\ Len(wire) <= 1
  /\ disc.pc = "returned" /\ conn.bound => conn.closed

\* The handler returned after one request and one response, with a second
\* frame of the device left unread.
C20_Witness ==
  /\ disc.pc = "returned"
  /\ Len(consumed) = 1 /\ Len(wire) = 1 /\ wire[1].delivered
  /\ inbound # <<>>
  /\ conn.bound /\ conn.closed

\* C21: in the discovery handshake a failed upgrade, a request that never
\* arrives before the read ends, or a writer that cannot be obtained leaves
\* no response frame on the connection; when the request was never read the
\* collaborator is not invoked; the handler reads and writes no second time.
C21_TransportErrorSilent ==
  /\ (disc.pc = "returned" /\ ~conn.bound) => (wire = <<>> /\ disc.calls = 0)
  /\ (disc.pc = "returned" /\ consumed = <<>>) => (wire = <<>> /\ disc.calls = 0)
  /\ disc.panicked => wire = <<>>
  /\ Len(consumed) <= 1 /\ disc.calls <= 1

\* The read deadline passed on a silent device: the handler returned.
C21_Witness ==
  /\ disc.pc = "returned" /\ conn.bound /\ conn.closed
  /\ sentCount = 0 /\ ~disc.pinged /\ ~peerDone /\ netUp
  /\ consumed = <<>> /\ wire = <<>> /\ disc.calls = 0

\* C22: when the identifier of the session URL fails to parse, the
\* connection is not upgraded, no session is handed to the server and
\* nothing is written.
C22_BadIdentifierNoSession ==
  bind.parseErr # Nil => (~conn.bound /\ ~bind.handed /\ wire = <<>>)

\* Frame f is a version announcement: a JSON object whose msgtype is "version".
IsVersionFrame(f) ==
  IsData(f) /\ f.wf /\ Has(f.obj, "msgtype") /\ f.obj.msgtype = Str("version")

\* C23: the session leaves AwaitVersion for the configuration only when its
\* first frame is a version announcement; after any other first frame the
\* runner has returned an error, the connection is closed and no
\* configuration was asked for or written.
C23_OnlyVersionPasses ==
  (first # NoFrame /\ ~IsVersionFrame(first.frame)) =>
    /\ Closed
    /\ runErr # Nil
    /\ confCalls = 0
    /\ ~ConfWritten

\* C24: the deadline of the version read is off the connection at every
\* later read, and the read loop ends only on a frame that says so or on a
\* closed connection, never on the silence of the device.
C24_DeadlineOnlyForVersion ==
  [][/\ (rpc' \in {"next", "dispatch"} \/ Active') => ~conn'.readDeadline
     /\ (rpc = "next" /\ rpc' = "exited") => (inbound # <<>> \/ conn.closed)]_vars

\* An Active session is waiting in its read for a device that has gone
\* silent after one frame.
C24_Witness ==
  /\ Active /\ rpc = "next"
  /\ Len(consumed) = 1 /\ inbound = <<>> /\ sentCount = 2
  /\ ~peerDone /\ netUp /\ ~conn.closed /\ ~conn.readDeadline

\* The configuration step failed: the collaborator gave none, or the frame
\* was not written to the transport (no writer, no encoding, or a flush
\* that did not reach the device).
ConfFailed ==
  \/ confCalls > 0 /\ supplied = Nil
  \/ supplied # Nil /\ pc # "writeConf" /\ ~ConfWritten
  \/ \E i \in DOMAIN wire : IsConf(wire[i]) /\ ~wire[i].delivered

\* C25: when the configuration cannot be obtained or written the runner has
\* returned an error, the connection is closed, the read loop was never
\* started and the receive handler was never invoked.
C25_ConfFailureEndsSession ==
  ConfFailed => (Closed /\ runErr # Nil /\ rpc = "none" /\ handlerLog = <<>>)

\* C26: in an Active session the loop body, on a binary frame, adds exactly
\* 1 to RecvBinaryMsg and changes no other counter, neither Version nor
\* RouterConf; the receive handler is not invoked and the loop goes on to
\* its next read.
C26_BinaryCountedOnly ==
  [][(DispatchStep /\ cur.mt = "binary") =>
       /\ gw' = [gw EXCEPT !.Stats.RecvBinaryMsg = @ + 1]
       /\ handlerLog' = handlerLog
       /\ rpc' = "next"]_vars

\* A binary frame, the only frame of the loop so far, has been counted.
C26_Witness ==
  /\ impl = "Gateway" /\ Active /\ rpc = "next"
  /\ consumed = <<BinaryFrame(UplinkObj)>>
  /\ gw.Stats = [ZeroStats EXCEPT !.RecvBinaryMsg = 1]
  /\ handlerLog = <<>>

\* The text frames the read loop has received and handled.
TextHandled ==
  Cardinality({i \in DOMAIN consumed : consumed[i].mt = "text"})
    - (IF cur # NoFrame /\ cur.mt = "text" THEN 1 ELSE 0)

\* C27: in an Active session RecvTextMsg is the number of text frames
\* received since the session became Active.
C27_TextCounted ==
  (impl = "Gateway" /\ Active) => gw.Stats.RecvTextMsg = TextHandled

\* C28: in an Active session neither path waits for the other: a WriteText
\* call can be made and can return while the read loop is blocked in its
\* read or inside the receive handler, and the read loop can take a frame
\* and dispatch it while a WriteText call is in progress.
C28_PathsIndependent ==
  (impl = "Gateway" /\ Active) =>
    /\ (wtLast # Running /\ wtCalls < MaxWrites) => ENABLED WriteTextCall
    /\ wtLast = Running => ENABLED WriteText
    /\ rpc = "dispatch" => ENABLED ReaderDispatch
    /\ (rpc = "next" /\ inbound # <<>>) => ENABLED ReaderNext

\* A WriteText call is in progress while the read loop is inside the
\* receive handler with a decoded message.
C28_Witness ==
  /\ impl = "Gateway" /\ Active
  /\ wtLast = Running
  /\ rpc = "dispatch" /\ cur = TextFrame(UplinkObj)

\* C29: the first frame written to a session connection is the router
\* configuration, however WriteText calls interleave with the handshake.
C29_ConfFirstOutbound ==
  (impl = "Gateway" /\ wire # <<>>) => IsConf(wire[1])

\* C30: the resolution collaborator is invoked only for a request with a
\* router or Router field whose value parsed as an identifier.
C30_CollaboratorNeedsIdentifier ==
  disc.calls > 0 =>
    \E k \in {"router", "Router"} \cap DOMAIN disc.msg :
      NewEUI(disc.go, disc.msg[k]).err = Nil

\* C31: no frame reaches the device with a payload whose production failed:
\* every delivered frame is a complete message.
C31_NoPartialFrame ==
  \A i \in 1..Len(wire) : wire[i].delivered => wire[i].frame # GarbageFrame

\* The Receive Context of a decoded radio-bearing record.
RxOf(m) == IF m.type = "DnTxed" THEN m.f.RCtx ELSE m.f.UpInfo.f.RCtx

RxKeys == [rctx |-> "RCTX", xtime |-> "XTime", gpstime |-> "GPSTime"]

\* C32: a decoded jreq, updf or dntxed holds in its Receive Context the
\* rctx, xtime and gpstime values the frame carries at its top level.
C32_ReceiveContextKept ==
  (/\ codec.op = "decoded"
   /\ codec.out.err = Nil
   /\ codec.out.msg.type \in {"JoinRequest", "Uplink", "DnTxed"})
  => \A k \in DOMAIN RxKeys :
       (Has(codec.in.obj, k) /\ codec.in.obj[k].t = "n")
       => RxOf(codec.out.msg).f[RxKeys[k]] = codec.in.obj[k].n

\* C33: once Run has returned, the receive handler is not invoked again for
\* the session.
C33_NoReceiveAfterReturn ==
  [][(impl = "Gateway" /\ pc = "returned") => handlerLog' = handlerLog]_vars

\* C34: once the context is cancelled the session obtains and writes no
\* configuration and starts no receive loop.
C34_CancelStopsHandshake ==
  [][(impl = "Gateway" /\ cancelled)
     => (/\ confCalls' = confCalls
         /\ ConfCount' = ConfCount
         /\ (rpc = "none" => rpc' = "none"))]_vars

\* C35: when WriteText has returned nil, its message is on the wire as a
\* text frame.
C35_WriteTextSent ==
  (impl = "Gateway" /\ wtLast.called /\ wtLast.err = Nil)
  => \E i \in DOMAIN wire : wire[i].frame = TextFrame(DownlinkObj)

\* The handshake failed: the version was not read or decoded, or the
\* configuration step failed.
HandshakeFailed ==
  \/ timedOut
  \/ first # NoFrame /\ first.err # Nil
  \/ ConfFailed

\* C36: Run returns a non-nil error exactly when the handshake failed; a
\* session that reached its read loop returns nil.
C36_ErrorIffHandshakeFailed ==
  (impl = "Gateway" /\ pc = "returned") => (runErr # Nil <=> HandshakeFailed)

\* A frame of the wire carries a rendezvous: uri or muxs.
IsRendezvous(e) ==
  e.frame.wf /\ (Has(e.frame.obj, "uri") \/ Has(e.frame.obj, "muxs"))

\* C37: when the collaborator returned an error for an identifier parsed
\* from the request, the handler has sent no frame carrying uri or muxs, and
\* once it returned the connection is closed.
C37_CollaboratorErrorNoRendezvous ==
  (/\ impl = "DiscoveryHandler"
   /\ disc.calls > 0
   /\ {"router", "Router"} \cap DOMAIN disc.msg # {}
   /\ GetDiscoveryResponse(disc.collab, disc.eui).err # Nil)
  => /\ \A i \in DOMAIN wire : ~IsRendezvous(wire[i])
     /\ disc.pc = "returned" => conn.closed

\* The handler's loop run to its end from s, visiting the keys in one fixed
\* order.
RECURSIVE LoopFrom(_)
LoopFrom(s) ==
  IF s.disc.pc # "range" \/ s.disc.todo = {} THEN s
  ELSE LoopFrom(RangeStep(s.disc, s.conn, s.wire, CHOOSE k \in s.disc.todo : TRUE))

\* What the device can tell of the loop's end: the frames written and
\* whether the handler went on to the resolution.
LoopOutcome(s) == <<LoopFrom(s).disc.pc, LoopFrom(s).wire>>

\* C38: whichever key of the request the loop visits next, the handler
\* writes the same frames and takes the same decision to return.
C38_KeyOrderIrrelevant ==
  (impl = "DiscoveryHandler" /\ disc.pc = "range")
  => \A k \in disc.todo :
       LoopOutcome(RangeStep(disc, conn, wire, k))
         = LoopOutcome([disc |-> disc, conn |-> conn, wire |-> wire])

\* C39: once Run has returned, the read goroutine it started ends.
C39_ReaderEnds ==
  (impl = "Gateway" /\ pc = "returned") ~> (rpc \in {"none", "exited"})

\* Run returned on a live connection with its read goroutine in a read, and
\* the goroutine has ended.
C39_Witness ==
  /\ impl = "Gateway" /\ pc = "returned" /\ runErr = Nil
  /\ rpc = "exited"
  /\ netUp /\ ~peerDone /\ inbound = <<>>

\* C40: the discovery handler never calls a method of a writer it did not
\* obtain: it does not panic.
C40_NoAbsentWriterUse ==
  impl = "DiscoveryHandler" => ~disc.panicked

====
